---- MODULE Spec2Model ----
(***************************************************************************)
(* Model of pipelines/airbyte_ci/connectors/pipeline.py: the batch runner  *)
(* run_connectors_pipelines, the report step run_report_complete_pipeline  *)
(* and the classifier context_to_step_result.                             *)
(*                                                                         *)
(* One behaviour is one call of run_connectors_pipelines in a process that *)
(* has imported the module.  The host coroutine is followed through its   *)
(* await points by pc; the children of the anyio task group are followed  *)
(* by task[i].                                                             *)
(***************************************************************************)
EXTENDS Integers, Sequences, FiniteSets, TLC

\* ------------------------------------------------------------------ bounds
MaxUnits == 3
MaxConcurrency == 2
\* Bounds of the batches drawn under the fair specification.
LiveMaxUnits == 2
LiveMaxConcurrency == 2

\* --------------------------------------------------------------- constants
\* ConnectorLanguage members used as class keys.
Languages == {"JAVA", "PYTHON"}

\* ContextState members a context can be left in by a work function.
ContextState == {"PENDING", "SUCCESSFUL", "FAILURE", "ERROR"}

NoReport == [name |-> "none", pipeline_context |-> 0, steps_results |-> <<>>, filename |-> "none"]

VARIABLES
    pc,                  \* position of the host coroutine
    contexts,            \* the list passed by the caller (mutable objects)
    concurrency,         \* the concurrency argument
    default_connectors_semaphore,   \* free slots of the per-call semaphore
    forced_semaphores,   \* free slots of the module-level semaphores, by language
    task,                \* state of the child task started for contexts[i]
    gate,                \* the semaphore reference handed to task i
    cancel_called,       \* the task group's cancel scope has been cancelled
    completed,           \* indices of the tasks in the order in which they ended
    dockerd,             \* "absent", "started", "stopped"
    start_calls,         \* number of dockerd_service.start() calls
    stop_calls,          \* number of dockerd_service.stop() calls
    steps_results,       \* the list built by run_report_complete_pipeline
    report,              \* the Report object built, or NoReport
    saved,               \* reports persisted by report.save()
    error,               \* exception propagated to the caller, or "none"
    returned,            \* value returned to the caller, or <<"nothing">>
    other_call_holders   \* Java slots held by tasks of another call running in this process

vars == <<pc, contexts, concurrency, default_connectors_semaphore, forced_semaphores,
          task, gate, cancel_called, completed, dockerd, start_calls, stop_calls,
          steps_results, report, saved, error, returned, other_call_holders>>

\* ----------------------------------------------------------------- helpers
Indices == 1..Len(contexts)

RECURSIVE SeqsUpTo(_, _)
SeqsUpTo(S, n) ==
    IF n = 0 THEN {<<>>}
    ELSE LET shorter == SeqsUpTo(S, n - 1)
         IN shorter \cup {Append(s, e) : s \in {t \in shorter : Len(t) = n - 1}, e \in S}

\* A context as the caller builds it: the connector's technical name is its
\* position in the list, its state is the initial one.
NewContext(i, lang) ==
    [technical_name |-> i,
     language |-> lang,
     state |-> "PENDING",
     pipeline_name |-> "caller",
     dagger_client |-> "unset",
     dockerd_service |-> "unset"]

DefaultGate == [kind |-> "default", key |-> "none"]
ForcedGate(lang) == [kind |-> "forced", key |-> lang]

\* anyio.Semaphore(concurrency): the initial value of the per-call semaphore.
DefaultSemaphoreValue_OffByOne(c) == c + 1
DefaultSemaphoreValue_OneLess(c) == c - 1
DefaultSemaphoreValue(c) == c

\* CONNECTOR_LANGUAGE_TO_FORCED_CONCURRENCY_MAPPING.get(language, default)
GateFor_AlwaysDefault(lang) == DefaultGate
GateFor_NoDefault(lang) ==
    IF lang \in DOMAIN forced_semaphores THEN ForcedGate(lang) ELSE ForcedGate("JAVA")
GateFor(lang) ==
    IF lang \in DOMAIN forced_semaphores THEN ForcedGate(lang) ELSE DefaultGate

SemValue(g) ==
    IF g.kind = "forced" THEN forced_semaphores[g.key] ELSE default_connectors_semaphore

\* The effect of a semaphore acquire (d = -1) or release (d = 1) on gate g.
SemAdd(g, d) ==
    IF g.kind = "forced"
    THEN /\ forced_semaphores' = [forced_semaphores EXCEPT ![g.key] = @ + d]
         /\ UNCHANGED default_connectors_semaphore
    ELSE /\ default_connectors_semaphore' = default_connectors_semaphore + d
         /\ UNCHANGED forced_semaphores

Holding(i) == task[i] = "holding"
Ended(i) == task[i] \in {"done", "failed", "cancelled"}
Holders == {i \in Indices : Holding(i)}

\* -------------------------------------------------------------------- Init
\* The module has been imported: the forced mapping holds one Semaphore(1).
Init ==
    /\ pc = "idle"
    /\ contexts = <<>>
    /\ concurrency = 1
    /\ default_connectors_semaphore = 0
    /\ forced_semaphores = [l \in {"JAVA"} |-> 1]
    /\ task = <<>>
    /\ gate = <<>>
    /\ cancel_called = FALSE
    /\ completed = <<>>
    /\ dockerd = "absent"
    /\ start_calls = 0
    /\ stop_calls = 0
    /\ steps_results = <<>>
    /\ report = NoReport
    /\ saved = <<>>
    /\ error = "none"
    /\ returned = <<"nothing">>
    /\ other_call_holders = 0

\* ------------------------------------------------------------ host actions
\* Lines 97-108: the call creates the default semaphore, enters the dagger
\* connection and reads the credentials of contexts[0]; on an empty list
\* contexts[0] raises IndexError, which leaves the connection block.
Call(langs, c) ==
    /\ pc = "idle"
    /\ contexts' = [i \in 1..Len(langs) |-> NewContext(i, langs[i])]
    /\ concurrency' = c
    /\ default_connectors_semaphore' = DefaultSemaphoreValue(c)
    /\ task' = [i \in 1..Len(langs) |-> "unstarted"]
    /\ gate' = [i \in 1..Len(langs) |-> DefaultGate]
    /\ IF Len(langs) = 0
       THEN /\ pc' = "raised"
            /\ error' = "IndexError"
       ELSE /\ pc' = "start_service"
            /\ error' = "none"
    /\ UNCHANGED <<other_call_holders, forced_semaphores, cancel_called, completed, dockerd, start_calls,
                   stop_calls, steps_results, report, saved, returned>>

\* Line 111: await dockerd_service.start() returns.
StartService_NotAwaited ==
    /\ pc = "start_service"
    /\ start_calls' = start_calls + 1
    /\ pc' = "launch"
    /\ UNCHANGED <<other_call_holders, contexts, concurrency, default_connectors_semaphore, forced_semaphores,
                   task, gate, cancel_called, completed, dockerd, stop_calls,
                   steps_results, report, saved, error, returned>>
StartService ==
    /\ pc = "start_service"
    /\ start_calls' = start_calls + 1
    /\ dockerd' = "started"
    /\ pc' = "launch"
    /\ UNCHANGED <<other_call_holders, contexts, concurrency, default_connectors_semaphore, forced_semaphores,
                   task, gate, cancel_called, completed, stop_calls,
                   steps_results, report, saved, error, returned>>

\* Line 111: await dockerd_service.start() raises.
StartServiceFails_Swallowed ==
    /\ pc = "start_service"
    /\ start_calls' = start_calls + 1
    /\ pc' = "launch"
    /\ error' = "ServiceStartError"
    /\ UNCHANGED <<other_call_holders, contexts, concurrency, default_connectors_semaphore, forced_semaphores,
                   task, gate, cancel_called, completed, dockerd, stop_calls,
                   steps_results, report, saved, returned>>
StartServiceFails ==
    /\ pc = "start_service"
    /\ start_calls' = start_calls + 1
    /\ pc' = "raised"
    /\ error' = "ServiceStartError"
    /\ UNCHANGED <<other_call_holders, contexts, concurrency, default_connectors_semaphore, forced_semaphores,
                   task, gate, cancel_called, completed, dockerd, stop_calls,
                   steps_results, report, saved, returned>>

\* Lines 124-133: one iteration of the fan-out loop.  The loop body has no
\* await, so no child runs before the loop is over.
NextToLaunch == CHOOSE i \in Indices : task[i] = "unstarted" /\ \A j \in 1..(i - 1) : task[j] # "unstarted"

Launch_AcquiresGate ==
    /\ pc = "launch"
    /\ LET i == NextToLaunch
       IN /\ SemValue(GateFor(contexts[i].language)) > 0
          /\ SemAdd(GateFor(contexts[i].language), -1)
          /\ contexts' = [contexts EXCEPT ![i].dagger_client = "pipeline",
                                          ![i].dockerd_service = "dockerd"]
          /\ task' = [task EXCEPT ![i] = "holding"]
          /\ gate' = [gate EXCEPT ![i] = GateFor(contexts[i].language)]
          /\ pc' = IF i = Len(contexts) THEN "join" ELSE "launch"
    /\ UNCHANGED <<other_call_holders, concurrency,
                   cancel_called, completed, dockerd, start_calls, stop_calls,
                   steps_results, report, saved, error, returned>>
Launch ==
    /\ pc = "launch"
    /\ LET i == NextToLaunch
       IN /\ contexts' = [contexts EXCEPT ![i].dagger_client = "pipeline",
                                          ![i].dockerd_service = "dockerd"]
          /\ task' = [task EXCEPT ![i] = "launched"]
          /\ gate' = [gate EXCEPT ![i] = GateFor(contexts[i].language)]
          /\ pc' = IF i = Len(contexts) THEN "join" ELSE "launch"
    /\ UNCHANGED <<other_call_holders, concurrency, default_connectors_semaphore, forced_semaphores,
                   cancel_called, completed, dockerd, start_calls, stop_calls,
                   steps_results, report, saved, error, returned>>

\* ------------------------------------------------------------ task actions
\* The work function connector_pipeline(context, semaphore, *args) is passed
\* by the caller.  It enters its semaphore with scoped acquisition, works,
\* writes the context's state and leaves the semaphore; it may raise at any
\* point.  The children run while the host waits in the task group's exit.

\* anyio.Semaphore.acquire: raises the cancellation if the scope is
\* cancelled, otherwise takes a slot when one is free.
TaskAcquire(i) ==
    /\ pc = "join"
    /\ task[i] = "launched"
    /\ ~cancel_called
    /\ SemValue(gate[i]) > 0
    /\ SemAdd(gate[i], -1)
    /\ task' = [task EXCEPT ![i] = "holding"]
    /\ UNCHANGED <<other_call_holders, pc, contexts, concurrency, gate, cancel_called, completed, dockerd,
                   start_calls, stop_calls, steps_results, report, saved, error, returned>>

\* The work function ends normally: it has left the context in state s
\* (PENDING when it wrote none) and released its slot.
TaskFinish(i, s) ==
    /\ pc = "join"
    /\ task[i] = "holding"
    /\ contexts' = [contexts EXCEPT ![i].state = s]
    /\ SemAdd(gate[i], 1)
    /\ task' = [task EXCEPT ![i] = "done"]
    /\ completed' = Append(completed, i)
    /\ UNCHANGED <<other_call_holders, pc, concurrency, gate, cancel_called, dockerd,
                   start_calls, stop_calls, steps_results, report, saved, error, returned>>

\* The work function raises: the scoped acquisition releases the slot it
\* holds, and the task group cancels its scope (the siblings).
TaskRaise(i) ==
    /\ pc = "join"
    /\ task[i] \in {"launched", "holding"}
    /\ IF task[i] = "holding"
       THEN SemAdd(gate[i], 1)
       ELSE UNCHANGED <<default_connectors_semaphore, forced_semaphores>>
    /\ task' = [task EXCEPT ![i] = "failed"]
    /\ cancel_called' = TRUE
    /\ completed' = Append(completed, i)
    /\ UNCHANGED <<other_call_holders, pc, contexts, concurrency, gate, dockerd,
                   start_calls, stop_calls, steps_results, report, saved, error, returned>>

\* A sibling receives the cancellation at its next checkpoint and unwinds.
TaskCancelled_KeepsSlot(i) ==
    /\ pc = "join"
    /\ cancel_called
    /\ task[i] \in {"launched", "holding"}
    /\ task' = [task EXCEPT ![i] = "cancelled"]
    /\ completed' = Append(completed, i)
    /\ UNCHANGED <<other_call_holders, pc, contexts, concurrency, default_connectors_semaphore, forced_semaphores,
                   gate, cancel_called, dockerd,
                   start_calls, stop_calls, steps_results, report, saved, error, returned>>
TaskCancelled(i) ==
    /\ pc = "join"
    /\ cancel_called
    /\ task[i] \in {"launched", "holding"}
    /\ IF task[i] = "holding"
       THEN SemAdd(gate[i], 1)
       ELSE UNCHANGED <<default_connectors_semaphore, forced_semaphores>>
    /\ task' = [task EXCEPT ![i] = "cancelled"]
    /\ completed' = Append(completed, i)
    /\ UNCHANGED <<other_call_holders, pc, contexts, concurrency, gate, cancel_called, dockerd,
                   start_calls, stop_calls, steps_results, report, saved, error, returned>>

\* ----------------------------------------------------- host actions, cont.
\* Line 123/133: the exit of `async with anyio.create_task_group()` returns
\* once every child has ended; it raises when a child raised.
JoinReady_NoWait == \E i \in Indices : Ended(i)
JoinReady == \A i \in Indices : Ended(i)

JoinOutcome_Swallow == "stop_service"
JoinOutcome == IF \E i \in Indices : task[i] = "failed" THEN "raised" ELSE "stop_service"

Join ==
    /\ pc = "join"
    /\ JoinReady
    /\ pc' = JoinOutcome
    /\ error' = IF JoinOutcome = "raised" THEN "TaskError" ELSE error
    /\ UNCHANGED <<other_call_holders, contexts, concurrency, default_connectors_semaphore, forced_semaphores,
                   task, gate, cancel_called, completed, dockerd, start_calls, stop_calls,
                   steps_results, report, saved, returned>>

\* Line 137: await dockerd_service.stop() returns.
StopService ==
    /\ pc = "stop_service"
    /\ stop_calls' = stop_calls + 1
    /\ dockerd' = "stopped"
    /\ pc' = "report_entry"
    /\ UNCHANGED <<other_call_holders, contexts, concurrency, default_connectors_semaphore, forced_semaphores,
                   task, gate, cancel_called, completed, start_calls,
                   steps_results, report, saved, error, returned>>

\* Line 137: await dockerd_service.stop() raises.
StopServiceFails ==
    /\ pc = "stop_service"
    /\ stop_calls' = stop_calls + 1
    /\ pc' = "raised"
    /\ error' = "ServiceStopError"
    /\ UNCHANGED <<other_call_holders, contexts, concurrency, default_connectors_semaphore, forced_semaphores,
                   task, gate, cancel_called, completed, dockerd, start_calls,
                   steps_results, report, saved, returned>>

\* ------------------------------------------------- context_to_step_result
\* Lines 38-48.  The result of NoOpStep(context, status).run() is a
\* StepResult for that context with that status; any state other than the
\* three tested ones raises ValueError.
StepResult(context, status) ==
    [kind |-> "StepResult", context |-> context.technical_name, status |-> status]

ValueError == [kind |-> "ValueError", context |-> 0, status |-> "none"]

context_to_step_result_PendingSucceeds(context) ==
    IF context.state = "SUCCESSFUL" THEN StepResult(context, "SUCCESS")
    ELSE IF context.state = "FAILURE" THEN StepResult(context, "FAILURE")
    ELSE IF context.state = "ERROR" THEN StepResult(context, "FAILURE")
    ELSE StepResult(context, "SUCCESS")
context_to_step_result_ErrorSucceeds(context) ==
    IF context.state = "SUCCESSFUL" THEN StepResult(context, "SUCCESS")
    ELSE IF context.state = "FAILURE" THEN StepResult(context, "FAILURE")
    ELSE IF context.state = "ERROR" THEN StepResult(context, "SUCCESS")
    ELSE ValueError
context_to_step_result(context) ==
    IF context.state = "SUCCESSFUL" THEN StepResult(context, "SUCCESS")
    ELSE IF context.state = "FAILURE" THEN StepResult(context, "FAILURE")
    ELSE IF context.state = "ERROR" THEN StepResult(context, "FAILURE")
    ELSE ValueError

\* ------------------------------------------- run_report_complete_pipeline
\* Lines 61-68: the empty-list guard, then the first context is repurposed
\* as the upload context and renamed.
ReportEntry_RenamesAll ==
    /\ pc = "report_entry"
    /\ IF Len(contexts) = 0
       THEN /\ pc' = "return"
            /\ UNCHANGED contexts
       ELSE /\ pc' = "classify"
            /\ contexts' = [i \in Indices |-> [contexts[i] EXCEPT !.pipeline_name = "Report upload"]]
    /\ UNCHANGED <<other_call_holders, concurrency, default_connectors_semaphore, forced_semaphores,
                   task, gate, cancel_called, completed, dockerd, start_calls, stop_calls,
                   steps_results, report, saved, error, returned>>
ReportEntry ==
    /\ pc = "report_entry"
    /\ IF Len(contexts) = 0
       THEN /\ pc' = "return"
            /\ UNCHANGED contexts
       ELSE /\ pc' = "classify"
            /\ contexts' = [contexts EXCEPT ![1].pipeline_name = "Report upload"]
    /\ UNCHANGED <<other_call_holders, concurrency, default_connectors_semaphore, forced_semaphores,
                   task, gate, cancel_called, completed, dockerd, start_calls, stop_calls,
                   steps_results, report, saved, error, returned>>

\* Line 71: the list comprehension visits the contexts in list order; the
\* next one to convert follows those already converted.
NextContextIndex_Reversed == Len(contexts) - Len(steps_results)
NextContextIndex == Len(steps_results) + 1

\* Line 71: one element of the comprehension; a ValueError leaves the
\* function, and the caller, at once.
Classify ==
    /\ pc = "classify"
    /\ Len(steps_results) < Len(contexts)
    /\ LET r == context_to_step_result(contexts[NextContextIndex])
       IN IF r.kind = "ValueError"
          THEN /\ pc' = "raised"
               /\ error' = "ValueError"
               /\ UNCHANGED steps_results
          ELSE /\ steps_results' = Append(steps_results, r)
               /\ pc' = IF Len(steps_results) + 1 = Len(contexts) THEN "build_report" ELSE "classify"
               /\ UNCHANGED error
    /\ UNCHANGED <<other_call_holders, contexts, concurrency, default_connectors_semaphore, forced_semaphores,
                   task, gate, cancel_called, completed, dockerd, start_calls, stop_calls,
                   report, saved, returned>>

\* Lines 73-78: the Report is built from the converted list.
BuildReport ==
    /\ pc = "build_report"
    /\ report' = [name |-> contexts[1].pipeline_name,
                  pipeline_context |-> contexts[1].technical_name,
                  steps_results |-> steps_results,
                  filename |-> "complete"]
    /\ pc' = "save_report"
    /\ UNCHANGED <<other_call_holders, contexts, concurrency, default_connectors_semaphore, forced_semaphores,
                   task, gate, cancel_called, completed, dockerd, start_calls, stop_calls,
                   steps_results, saved, error, returned>>

\* Line 80: await report.save() persists the report.
SaveReport_Twice ==
    /\ pc = "save_report"
    /\ saved' = Append(Append(saved, report), report)
    /\ pc' = "return"
    /\ UNCHANGED <<other_call_holders, contexts, concurrency, default_connectors_semaphore, forced_semaphores,
                   task, gate, cancel_called, completed, dockerd, start_calls, stop_calls,
                   steps_results, report, error, returned>>
SaveReport ==
    /\ pc = "save_report"
    /\ saved' = Append(saved, report)
    /\ pc' = "return"
    /\ UNCHANGED <<other_call_holders, contexts, concurrency, default_connectors_semaphore, forced_semaphores,
                   task, gate, cancel_called, completed, dockerd, start_calls, stop_calls,
                   steps_results, report, error, returned>>

\* Line 80: await report.save() raises; nothing was persisted.
SaveReportFails ==
    /\ pc = "save_report"
    /\ pc' = "raised"
    /\ error' = "SaveError"
    /\ UNCHANGED <<other_call_holders, contexts, concurrency, default_connectors_semaphore, forced_semaphores,
                   task, gate, cancel_called, completed, dockerd, start_calls, stop_calls,
                   steps_results, report, saved, returned>>

\* Lines 141-142: the connection block is left and the list is returned.
Return ==
    /\ pc = "return"
    /\ returned' = contexts
    /\ pc' = "returned"
    /\ UNCHANGED <<other_call_holders, contexts, concurrency, default_connectors_semaphore, forced_semaphores,
                   task, gate, cancel_called, completed, dockerd, start_calls, stop_calls,
                   steps_results, report, saved, error>>

\* -------------------------------------------------------------- the system
Next ==
    \/ \E langs \in SeqsUpTo(Languages, MaxUnits), c \in 1..MaxConcurrency : Call(langs, c)
    \/ StartService
    \/ StartServiceFails
    \/ Launch
    \/ \E i \in Indices : TaskAcquire(i)
    \/ \E i \in Indices, s \in ContextState : TaskFinish(i, s)
    \/ \E i \in Indices : TaskRaise(i)
    \/ \E i \in Indices : TaskCancelled(i)
    \/ Join
    \/ StopService
    \/ StopServiceFails
    \/ ReportEntry
    \/ Classify
    \/ BuildReport
    \/ SaveReport
    \/ SaveReportFails
    \/ Return

Spec == Init /\ [][Next]_vars

\* ------------------------------------------------------------- scheduling
\* The event loop runs every coroutine that can run: the host proceeds when
\* its await returns, and a work function that can take its slot, end its
\* work or unwind from a cancellation does so.  Nothing forces a service
\* call, a save or a work function to raise.
LiveCall ==
    \E langs \in SeqsUpTo(Languages, LiveMaxUnits), c \in 1..LiveMaxConcurrency : Call(langs, c)

HostStep ==
    \/ LiveCall
    \/ StartService
    \/ Launch
    \/ Join
    \/ StopService
    \/ ReportEntry
    \/ Classify
    \/ BuildReport
    \/ SaveReport
    \/ Return

TaskStep ==
    \E i \in Indices :
        \/ TaskAcquire(i)
        \/ \E s \in ContextState : TaskFinish(i, s)
        \/ TaskCancelled(i)

LiveNext ==
    \/ LiveCall
    \/ StartService
    \/ StartServiceFails
    \/ Launch
    \/ \E i \in Indices : TaskAcquire(i)
    \/ \E i \in Indices, s \in ContextState : TaskFinish(i, s)
    \/ \E i \in Indices : TaskRaise(i)
    \/ \E i \in Indices : TaskCancelled(i)
    \/ Join
    \/ StopService
    \/ StopServiceFails
    \/ ReportEntry
    \/ Classify
    \/ BuildReport
    \/ SaveReport
    \/ SaveReportFails
    \/ Return

FairSpec == Init /\ [][LiveNext]_vars /\ WF_vars(HostStep) /\ WF_vars(TaskStep)

\* ------------------------------------------------- a second, concurrent call
\* Another call of run_connectors_pipelines running in the same process
\* (same event loop) creates its own default semaphore at line 97, but line
\* 131 hands its Java tasks the semaphore of the module-level mapping (lines
\* 31-35).  Its only effect on the state of this call is through that
\* semaphore: a Java work function of the other call takes the slot ...
OtherCallAcquire ==
    /\ forced_semaphores["JAVA"] > 0
    /\ forced_semaphores' = [forced_semaphores EXCEPT !["JAVA"] = @ - 1]
    /\ other_call_holders' = other_call_holders + 1
    /\ UNCHANGED <<pc, contexts, concurrency, default_connectors_semaphore,
                   task, gate, cancel_called, completed, dockerd, start_calls, stop_calls,
                   steps_results, report, saved, error, returned>>

\* ... and gives it back.
OtherCallRelease ==
    /\ other_call_holders > 0
    /\ forced_semaphores' = [forced_semaphores EXCEPT !["JAVA"] = @ + 1]
    /\ other_call_holders' = other_call_holders - 1
    /\ UNCHANGED <<pc, contexts, concurrency, default_connectors_semaphore,
                   task, gate, cancel_called, completed, dockerd, start_calls, stop_calls,
                   steps_results, report, saved, error, returned>>

NextConcurrentCalls ==
    \/ Next
    \/ OtherCallAcquire
    \/ OtherCallRelease

SpecConcurrentCalls == Init /\ [][NextConcurrentCalls]_vars

BatchEnded == pc \in {"returned", "raised"}

TypeOK ==
    /\ pc \in {"idle", "start_service", "launch", "join", "stop_service", "report_entry",
               "classify", "build_report", "save_report", "return", "returned", "raised"}
    /\ Len(contexts) <= MaxUnits
    /\ concurrency \in 1..MaxConcurrency
    /\ default_connectors_semaphore \in 0..MaxConcurrency
    /\ \A l \in DOMAIN forced_semaphores : forced_semaphores[l] \in 0..1
    /\ \A i \in Indices : task[i] \in {"unstarted", "launched", "holding", "done", "failed", "cancelled"}
    /\ \A i \in Indices : contexts[i].state \in ContextState
    /\ cancel_called \in BOOLEAN
    /\ dockerd \in {"absent", "started", "stopped"}
    /\ other_call_holders \in 0..1

\* ------------------------------------------------------------- properties
Recognized == {"SUCCESSFUL", "FAILURE", "ERROR"}
NoForcedClass == \A i \in Indices : contexts[i].language \notin DOMAIN forced_semaphores
JavaHolders == {i \in Holders : contexts[i].language = "JAVA"}
SomeTaskFailed == \E i \in Indices : task[i] = "failed"
AllTasksDone == Len(contexts) > 0 /\ \A i \in Indices : task[i] = "done"

\* C1: in a batch without a Java connector, the number of tasks holding a
\* slot never exceeds the concurrency argument.
C1_DefaultCapacityBound ==
    NoForcedClass => Cardinality(Holders) <= concurrency

C1_Witness ==
    /\ NoForcedClass
    /\ Len(contexts) > concurrency
    /\ Cardinality(Holders) = concurrency
    /\ \E i \in Indices : task[i] = "launched"

\* C2: at most one Java task holds its slot at any instant, also when the
\* concurrency argument is larger than 1 and other tasks hold default slots.
C2_JavaSerialized ==
    Cardinality(JavaHolders) <= 1

C2_Witness ==
    /\ concurrency > 1
    /\ Cardinality(JavaHolders) = 1
    /\ \E i \in Indices : contexts[i].language = "JAVA" /\ task[i] = "launched"
    /\ \E i \in Holders : contexts[i].language # "JAVA"

\* C3 (as claimed): a call with an empty list returns the empty list
\* normally, without starting the service and without building or
\* persisting a report.
C3_EmptyListReturns ==
    (BatchEnded /\ Len(contexts) = 0) =>
        /\ pc = "returned"
        /\ error = "none"
        /\ returned = <<>>
        /\ start_calls = 0
        /\ report = NoReport
        /\ saved = <<>>

\* C4: a task is launched or running only when the service's start has
\* completed.
C4_StartBeforeTasks ==
    /\ (\E i \in Indices : task[i] # "unstarted") => (dockerd # "absent" /\ start_calls = 1)
    /\ (\E i \in Indices : task[i] \in {"launched", "holding"}) => dockerd = "started"

C4_Witness ==
    /\ dockerd = "started"
    /\ \E i \in Indices : task[i] = "holding"
    /\ \E i \in Indices : task[i] = "launched"

\* C5 (as claimed): a batch whose service start succeeded has called stop
\* exactly once when it ends, a batch in which a task raised included, and
\* stop is never called while a task is unfinished.
C5_StopExactlyOnce ==
    /\ (BatchEnded /\ dockerd # "absent") => stop_calls = 1
    /\ stop_calls > 0 => \A i \in Indices : Ended(i)

\* C6: the classifier maps SUCCESSFUL to SUCCESS, FAILURE and ERROR to
\* FAILURE, and raises ValueError for any other state without producing a
\* result; the ValueError precedes the construction of any report.
C6_Classification ==
    /\ \A k \in 1..Len(steps_results) :
          LET r == steps_results[k]
              c == contexts[r.context]
          IN /\ r.kind = "StepResult"
             /\ c.state \in Recognized
             /\ c.state = "SUCCESSFUL" => r.status = "SUCCESS"
             /\ c.state = "FAILURE" => r.status = "FAILURE"
             /\ c.state = "ERROR" => r.status = "FAILURE"
    /\ error = "ValueError" =>
          /\ contexts[Len(steps_results) + 1].state \notin Recognized
          /\ report = NoReport
          /\ saved = <<>>
    /\ report # NoReport => \A i \in Indices : contexts[i].state \in Recognized

C6_Witness ==
    /\ error = "ValueError"
    /\ Len(steps_results) = 2
    /\ contexts[3].state = "PENDING"
    /\ \E k \in 1..2 : contexts[k].state = "ERROR" /\ steps_results[k].status = "FAILURE"
    /\ \E k \in 1..2 : contexts[k].state = "SUCCESSFUL" /\ steps_results[k].status = "SUCCESS"

\* C7: a persisted report has one record per context, the i-th record
\* referring to the i-th context of the input list, whatever the order in
\* which the tasks ended.
C7_ReportInInputOrder ==
    \A n \in 1..Len(saved) :
        /\ Len(saved[n].steps_results) = Len(contexts)
        /\ \A i \in Indices : saved[n].steps_results[i].context = i

C7_Witness ==
    /\ Len(saved) = 1
    /\ Len(contexts) >= 3
    /\ completed[1] = Len(contexts)
    /\ completed[Len(contexts)] = 1

C10_TaskErrorPropagates ==
    /\ SomeTaskFailed => cancel_called
    /\ (SomeTaskFailed /\ pc # "join") =>
          /\ \A i \in Indices : Ended(i)
          /\ pc = "raised"
          /\ error = "TaskError"
          /\ steps_results = <<>>
          /\ report = NoReport
          /\ saved = <<>>

C10_Witness ==
    /\ pc = "raised"
    /\ error = "TaskError"
    /\ \E i \in Indices : task[i] = "cancelled"
    /\ \E i \in Indices : task[i] = "done"

HoldersOf(g) == {i \in Holders : gate[i] = g}

\* C11: gate slots are never leaked: the free slots of a gate are its
\* capacity less the tasks holding it, a task that has ended (done, failed
\* or cancelled) holds none, and when the batch has ended on any path both
\* the default gate and the Java gate have all of their capacity free.
C11_NoSlotLeak ==
    pc # "idle" =>
        /\ default_connectors_semaphore = concurrency - Cardinality(HoldersOf(DefaultGate))
        /\ forced_semaphores["JAVA"] = 1 - Cardinality(HoldersOf(ForcedGate("JAVA")))
        /\ BatchEnded => /\ default_connectors_semaphore = concurrency
                         /\ forced_semaphores["JAVA"] = 1

C11_Witness ==
    /\ BatchEnded
    /\ \E i \in Indices : task[i] = "done" /\ gate[i] = DefaultGate
    /\ \E i \in Indices : task[i] = "failed" /\ gate[i] = ForcedGate("JAVA")
    /\ \E i \in Indices : task[i] = "cancelled"

\* C12 (as claimed): every gate a batch uses is its own: the free slots a
\* call sees on a gate depend on that call's tasks only.  A call starts its
\* fan-out with every gate full, and a task of the call finds its gate
\* closed only when tasks of the same call hold all of its slots.
C12_GatesPerBatch ==
    /\ pc \in {"start_service", "launch"} =>
          /\ default_connectors_semaphore = concurrency
          /\ (\E i \in Indices : contexts[i].language = "JAVA") => forced_semaphores["JAVA"] = 1
    /\ \A i \in Indices :
          (task[i] = "launched" /\ SemValue(gate[i]) = 0) => HoldersOf(gate[i]) # {}

\* C13 (as claimed): when every task finished without raising and the
\* service's stop then raises, the error is surfaced and the results are
\* not lost: the contexts keep the states their tasks wrote, and these
\* outcomes reach the caller (the returned list) or the persisted report.
C13_StopFailureKeepsResults ==
    (BatchEnded /\ error = "ServiceStopError") =>
        /\ pc = "raised"
        /\ AllTasksDone
        /\ \/ returned # <<"nothing">>
           \/ /\ Len(saved) = 1
              /\ Len(saved[1].steps_results) = Len(contexts)

\* C14: when the service's start raises, the batch ends with that error and
\* no task was launched, no gate slot was taken, no context state was
\* written and no report was built or persisted.
C14_StartFailureAborts ==
    error = "ServiceStartError" =>
        /\ pc = "raised"
        /\ dockerd = "absent"
        /\ \A i \in Indices : task[i] = "unstarted" /\ contexts[i].state = "PENDING"
        /\ completed = <<>>
        /\ default_connectors_semaphore = concurrency
        /\ forced_semaphores["JAVA"] = 1
        /\ steps_results = <<>>
        /\ report = NoReport
        /\ saved = <<>>
        /\ returned = <<"nothing">>

C14_Witness ==
    /\ error = "ServiceStartError"
    /\ BatchEnded
    /\ Len(contexts) >= 2
    /\ \E i \in Indices : contexts[i].language = "JAVA"

C16_ClassifiedAfterJoinOnce ==
    /\ (Len(steps_results) > 0 \/ error = "ValueError") =>
          /\ pc \notin {"idle", "start_service", "launch", "join", "stop_service"}
          /\ \A i \in Indices : Ended(i)
    /\ Len(steps_results) <= Len(contexts)
    /\ \A j, k \in 1..Len(steps_results) :
          steps_results[j].context = steps_results[k].context => j = k
    /\ Len(saved) > 0 =>
          \A i \in Indices :
              Cardinality({k \in 1..Len(steps_results) : steps_results[k].context = i}) = 1

C16_Witness ==
    /\ pc = "classify"
    /\ Len(steps_results) = 1
    /\ Len(contexts) >= 2
    /\ \A i \in Indices : task[i] = "done"

\* C17: the gate handed to a task is a function of its language alone: a
\* Java task is handed the dedicated Java gate and any other task the
\* default gate, so tasks of one language share one gate and every launched
\* task has exactly one of the two.
C17_GateByLanguage ==
    /\ \A i \in Indices :
          task[i] # "unstarted" =>
              /\ contexts[i].language = "JAVA" => gate[i] = [kind |-> "forced", key |-> "JAVA"]
              /\ contexts[i].language # "JAVA" => gate[i] = [kind |-> "default", key |-> "none"]
    /\ \A i, j \in Indices :
          (task[i] # "unstarted" /\ task[j] # "unstarted"
              /\ contexts[i].language = contexts[j].language) => gate[i] = gate[j]

C17_Witness ==
    /\ pc = "join"
    /\ \E i, j \in Indices : /\ i # j
                             /\ contexts[i].language = "JAVA"
                             /\ contexts[j].language = "JAVA"
                             /\ gate[i].kind = "forced"
                             /\ gate[j].kind = "forced"
    /\ \E k \in Indices : contexts[k].language = "PYTHON" /\ gate[k].kind = "default"

GatesChanged ==
    \/ default_connectors_semaphore' # default_connectors_semaphore
    \/ forced_semaphores' # forced_semaphores

\* C18: the scheduler never acquires or releases a gate.  A step of the
\* fan-out loop launches the next task whatever the free slots are and
\* leaves both gates as they are, so the loop ends with all tasks launched;
\* after the creation of the default gate by the call, the free slots of a
\* gate change only in a step of a task that takes or gives back a slot.
C18_SchedulerNeverTouchesGates ==
    [][/\ pc = "launch" =>
            /\ ~GatesChanged
            /\ \E i \in Indices : /\ task[i] = "unstarted"
                                  /\ task' = [task EXCEPT ![i] = "launched"]
            /\ pc' = "join" => \A i \in Indices : task'[i] = "launched"
       /\ (pc # "idle" /\ GatesChanged) =>
            /\ pc = "join"
            /\ pc' = "join"
            /\ \E i \in Indices : /\ task' = [task EXCEPT ![i] = task'[i]]
                                  /\ \/ task[i] = "launched" /\ task'[i] = "holding"
                                     \/ task[i] = "holding" /\ Ended(i)']_vars

C18_Witness ==
    /\ pc = "join"
    /\ Len(contexts) > concurrency + 1
    /\ \A i \in Indices : task[i] = "launched"
    /\ default_connectors_semaphore = concurrency
    /\ forced_semaphores["JAVA"] = 1

\* C19: under fair scheduling the batch terminates: once the host waits in
\* the task group every task eventually ends and the host leaves the join,
\* and every call eventually returns or raises.
C19_BatchTerminates ==
    /\ (pc = "join") ~> (pc # "join" /\ \A i \in Indices : Ended(i))
    /\ <>BatchEnded

C19_Witness ==
    /\ pc = "returned"
    /\ Len(contexts) > concurrency
    /\ \A i, j \in Indices : gate[i] = gate[j]
    /\ \A i \in Indices : task[i] = "done"

NonJavaHolders == {i \in Holders : contexts[i].language # "JAVA"}

\* C20: Java tasks take no slot of the default gate: the default gate's
\* free slots are the concurrency argument less the non-Java holders, so at
\* most concurrency non-Java tasks and one Java task hold a slot at once,
\* concurrency + 1 in all.
C20_JavaOutsideDefaultGate ==
    pc # "idle" =>
        /\ default_connectors_semaphore = concurrency - Cardinality(NonJavaHolders)
        /\ Cardinality(NonJavaHolders) <= concurrency
        /\ Cardinality(Holders \ NonJavaHolders) <= 1
        /\ Cardinality(Holders) <= concurrency + 1

C20_Witness ==
    /\ concurrency >= 2
    /\ Cardinality(Holders) = concurrency + 1
    /\ Cardinality(NonJavaHolders) = concurrency

====
